---- MODULE Spec2Model ----
(***************************************************************************)
(* Mission-sequencing cost optimizer of COSMIC-Roadmap                     *)
(* (src/me_roadmap/data_processing/build_roadmap_v3.py).                   *)
(*                                                                         *)
(* Numbers.  Readiness levels are the whole numbers 0..13 of the roadmap   *)
(* sheets.  Dependency levels are decimals in [0,1]; they are held here in *)
(* tenths (0.9 is 9, 1.0 is 10), and so are the dependency thresholds.     *)
(* The components of the optimizer's float vector are held as whole-number *)
(* levels; only their order is ever read by the code.                      *)
(*                                                                         *)
(* Indices.  Python lists are 0-based: a permutation holds the indices     *)
(* 0..N-1 and enumerate() counts from 0.  Sequences here are 1-based, so   *)
(* element ii of a Python list is element ii + 1 of the sequence.          *)
(***************************************************************************)
EXTENDS Integers, Sequences, FiniteSets

\* ---------------------------------------------------------------- bounds
\* At most MaxCells (mission, capability) entries in the roadmap matrix.
MaxCells == 3
\* At most MaxCaps capabilities (rows of the sheets).
MaxCaps == 2
\* The float vector's components take the levels 0..MaxLevel.
MaxLevel == 3
\* In the runs of main: at most MaxSearchMissions missions, and the optimizer
\* evaluates at most MaxEvals candidates before its budget is exhausted.
MaxSearchMissions == 2
MaxEvals == 3
\* largest number of characters of a cell of the dependency sheet
MaxStrLen == 3

\* Readiness levels the roadmap matrices are drawn from: not ready (also what
\* a blank cell is cleaned to), below operational, above operational.
ReadinessLevels == {0, 5, 12}
\* Dependency levels (tenths) the roadmap matrices are drawn from: unneeded
\* (also a blank cell), 0.9 and fully critical.
DependencyLevels == {0, 9, 10}

\* ------------------------------------------------------------- constants
\* "Readiness is 0 to 13, 9 is operational"
OperationalReadiness == 9
\* active_model = 1
\* "Readiness is 0 to 13": the top of the readiness scale
TopReadiness == 13
ConfiguredModel == 1

VARIABLES
    use_cases,                      \* list of mission names
    capabilities,                   \* list of capability names
    use_case_data,                  \* mission name -> list of <<readiness, dependency>>
    active_model,
    save_results,
    float_vector,                   \* argument of cost_wrapper
    p_vector,                       \* argument of cost_function
    readiness_progression_matrix,   \* the matrices as the call left them
    upgrade_cost_matrix,
    penalty_cost_matrix,
    cost_progression_matrix,
    cost,                           \* value returned by the call
    pc,                             \* "idle" | "returned" | "raised"
    main_pc,                        \* where main() is
    evals,                          \* cost_wrapper calls the optimizer has made
    result_x,                       \* result.x: the optimizer's best vector so far
    result_fun,                     \* result.fun: its cost
    success,                        \* result.success: the optimizer converged
    optimal_permutation,
    stdout,                         \* what has been printed
    files,                          \* file name -> rows written (<<>>: not written)
    df_readiness,                   \* the sheets load_and_merge_data has read
    df_dependency,
    exc,                            \* the exception raised last ("none": none yet)
    combine_pc,                     \* where create_combined_roadmap is
    options,                        \* its keyword arguments
    roadmap_data                    \* the RoadmapData it returns

vars == <<use_cases, capabilities, use_case_data, active_model, save_results,
          float_vector, p_vector, readiness_progression_matrix,
          upgrade_cost_matrix, penalty_cost_matrix, cost_progression_matrix,
          cost, pc, main_pc, evals, result_x, result_fun, success,
          optimal_permutation, stdout, files, df_readiness, df_dependency,
          exc, combine_pc, options, roadmap_data>>

\* the data frames of load_and_merge_data
frames == <<df_readiness, df_dependency>>

\* the variables of create_combined_roadmap
combineVars == <<combine_pc, options, roadmap_data>>

\* the variables of main() and of the optimizer
mainVars == <<main_pc, evals, result_x, result_fun, success, optimal_permutation>>

\* the cost models of the configuration: name (the file prefix) and number
cost_models ==
    << <<"NA", 0>>,
       <<"Case 1 - min dev critical - ", 1>>,
       <<"Case 2 - min dev important- ", 2>>,
       <<"Case 3 - min dev optional - ", 3>>,
       <<"Case 4 - fastest critical - ", 4>>,
       <<"Case 5 - fastest important- ", 5>>,
       <<"Case 6 - fastest optional - ", 6>> >>

\* file_prefix = cost_models[active_model][0]
file_prefix(model) == cost_models[model + 1][1]

\* ------------------------------------------------------------- helpers
\* Python's max() of a non-empty collection
max(S) == CHOOSE x \in S : \A y \in S : y <= x

RECURSIVE sum(_)
\* Python's sum() of a list of numbers
sum(s) == IF Len(s) = 0 THEN 0 ELSE s[1] + sum(Tail(s))

\* ------------------------------------------------------ permutation encoder
\* One pass of the insertion loop of an index sort: the index vi is moved left
\* past every index whose value is strictly greater than v[vi].
RECURSIVE SiftLeft(_, _, _, _)
SiftLeft(v, idxs, vi, j) ==
    IF j >= 1 /\ v[vi + 1] < v[idxs[j] + 1]
    THEN SiftLeft(v, [idxs EXCEPT ![j + 1] = idxs[j]], vi, j - 1)
    ELSE [idxs EXCEPT ![j + 1] = vi]

RECURSIVE InsertFrom(_, _, _)
InsertFrom(v, idxs, i) ==
    IF i > Len(v) THEN idxs
    ELSE InsertFrom(v, SiftLeft(v, idxs, idxs[i], i - 1), i + 1)

\* argsort confused with the rank of each component (the number of components
\* strictly below it).
argsort_Ranks(v) == [i \in 1..Len(v) |-> Cardinality({j \in 1..Len(v) : v[j] < v[i]})]

\* argsort of the vector rounded to a coarser grid (two levels to a step).
argsort_Rounded(v) ==
    InsertFrom([i \in 1..Len(v) |-> v[i] \div 2], [i \in 1..Len(v) |-> i - 1], 2)

\* np.argsort(v): the indices 0..N-1 in the order that sorts v ascending.
argsort(v) == InsertFrom(v, [i \in 1..Len(v) |-> i - 1], 2)

\* ------------------------------------------------------------ cost evaluator
\* the thresholds given to the models the other way round
DependencyThreshold_Reversed(model) ==
    IF model = 1 THEN 2 ELSE IF model = 2 THEN 5 ELSE 9

\* dependency_threshold of the active model, in tenths
DependencyThreshold(model) ==
    IF model = 1 THEN 9 ELSE IF model = 2 THEN 5 ELSE 2

\* every listed model but "NA" running the steps
StepModels_Listed == {1, 2, 3, 4, 5, 6}

\* if active_model in [1, 2, 3]
StepModels == {1, 2, 3}

\* the new readiness without the carry of the readiness reached so far
NewReadiness_NoCarry(lr, rr, dd, dependency_threshold) ==
    IF dd < dependency_threshold THEN rr
    ELSE max({rr, OperationalReadiness})

\* the floor forced only strictly above the threshold
NewReadiness_StrictlyAbove(lr, rr, dd, dependency_threshold) ==
    IF dd <= dependency_threshold THEN max({lr, rr})
    ELSE max({lr, rr, OperationalReadiness})

\* the floor forced whatever the dependency
NewReadiness_AlwaysFloor(lr, rr, dd, dependency_threshold) ==
    max({lr, rr, OperationalReadiness})

\* the readiness reached so far forgotten when the floor is forced
NewReadiness_ForgetWhenForced(lr, rr, dd, dependency_threshold) ==
    IF dd < dependency_threshold THEN max({lr, rr})
    ELSE max({rr, OperationalReadiness})

\* the floor added to the readiness instead of bounding it from below
NewReadiness_RaisedByFloor(lr, rr, dd, dependency_threshold) ==
    IF dd < dependency_threshold THEN max({lr, rr})
    ELSE max({lr, rr}) + OperationalReadiness

\* one entry of the new row of readiness_progression_matrix
NewReadiness(lr, rr, dd, dependency_threshold) ==
    IF dd < dependency_threshold THEN max({lr, rr})
    ELSE max({lr, rr, OperationalReadiness})

\* the upgrade measured from the mission's start of scale, not from the last
\* readiness
UpgradeCost_FromZero(nr, lr) == max({0, nr})

\* the difference taken the wrong way round, and not clamped
UpgradeCost_Swapped(nr, lr) == lr - nr

\* a charge of at least one at every step
UpgradeCost_AtLeastOne(nr, lr) == max({1, nr - lr})

\* one entry of the new row of upgrade_cost_matrix
UpgradeCost(nr, lr) == max({0, nr - lr})

\* the penalty carrying the upgrade that triggered it
PenaltyCost_CarryUpgrade(lp, lu) == IF (lp > 0) \/ (lu > 0) THEN lp + lu ELSE 0

\* the penalty charged as a flat unit once triggered
PenaltyCost_Flat(lp, lu) == IF (lp > 0) \/ (lu > 0) THEN lp + 1 ELSE 0

\* the penalty charging the previous upgrade again
PenaltyCost_Upgrade(lp, lu) == IF (lp > 0) \/ (lu > 0) THEN lu ELSE 0

\* the penalty charging twice the previous upgrade on top of the carry
PenaltyCost_Doubled(lp, lu) == IF (lp > 0) \/ (lu > 0) THEN lp + 2 * lu ELSE 0

\* one entry of the new row of penalty_cost_matrix
PenaltyCost(lp, lu) == IF (lp > 0) \/ (lu > 0) THEN lp ELSE 0

\* one entry of this_cost
ThisCost(uc, pcost) == uc + pcost

\* the cost of the last step only
TotalCost_LastStep(cpm) == IF Len(cpm) = 0 THEN 0 ELSE sum(cpm[Len(cpm)])

\* cost = sum([sum(cc) for cc in cost_progression_matrix])
TotalCost(cpm) == sum([k \in 1..Len(cpm) |-> sum(cpm[k])])

\* the matrices kept from the call before instead of being created anew
EmptyMatrices_Stale ==
    [rpm |-> readiness_progression_matrix, ucm |-> upgrade_cost_matrix,
     pcm |-> penalty_cost_matrix, cpm |-> cost_progression_matrix]

\* cost_progression_matrix alone kept from the call before
EmptyMatrices_KeepCost ==
    [rpm |-> <<>>, ucm |-> <<>>, pcm |-> <<>>, cpm |-> cost_progression_matrix]

\* The state of the locals before the loop.
EmptyMatrices ==
    [rpm |-> <<>>, ucm |-> <<>>, pcm |-> <<>>, cpm |-> <<>>]

\* One iteration of the loop over use_case_data_ordered.
LoopBody(m, this_use_case_data, idx, model) ==
    LET n == Len(this_use_case_data)
        this_readiness == [c \in 1..n |-> this_use_case_data[c][1]]
        this_dependency == [c \in 1..n |-> this_use_case_data[c][2]]
    IN  IF model \in StepModels
        THEN LET dependency_threshold == DependencyThreshold(model)
                 zeros == [c \in 1..n |-> 0]
                 last_use_case_readiness ==
                     IF idx > 0 THEN m.rpm[Len(m.rpm)] ELSE zeros
                 last_upgrade == IF idx > 0 THEN m.ucm[Len(m.ucm)] ELSE zeros
                 last_penalty == IF idx > 0 THEN m.pcm[Len(m.pcm)] ELSE zeros
                 new_readiness ==
                     [c \in 1..n |-> NewReadiness(last_use_case_readiness[c],
                                                  this_readiness[c],
                                                  this_dependency[c],
                                                  dependency_threshold)]
                 new_upgrade ==
                     [c \in 1..n |-> UpgradeCost(new_readiness[c],
                                                 last_use_case_readiness[c])]
                 new_penalty ==
                     [c \in 1..n |-> PenaltyCost(last_penalty[c], last_upgrade[c])]
                 this_cost ==
                     [c \in 1..n |-> ThisCost(new_upgrade[c], new_penalty[c])]
             IN  [rpm |-> Append(m.rpm, new_readiness),
                  ucm |-> Append(m.ucm, new_upgrade),
                  pcm |-> Append(m.pcm, new_penalty),
                  cpm |-> Append(m.cpm, this_cost)]
        ELSE m

RECURSIVE Loop(_, _, _, _)
Loop(m, use_case_data_ordered, idx, model) ==
    IF idx >= Len(use_case_data_ordered) THEN m
    ELSE Loop(LoopBody(m, use_case_data_ordered[idx + 1], idx, model),
              use_case_data_ordered, idx + 1, model)

\* use_case_data_ordered of cost_function
Ordered(p, cases, data) == [k \in 1..Len(p) |-> data[cases[p[k] + 1]]]

\* cost_function(p_vector), for a non-empty mission order: the matrices it
\* builds and the cost it returns.
cost_function(p, cases, data, model) ==
    LET m == Loop(EmptyMatrices, Ordered(p, cases, data), 0, model)
    IN  [rpm |-> m.rpm, ucm |-> m.ucm, pcm |-> m.pcm, cpm |-> m.cpm,
         cost |-> TotalCost(m.cpm)]

\* ------------------------------------------------------------------ inputs
Cells == ReadinessLevels \X DependencyLevels

\* the shapes of the roadmap matrix: N missions by C capabilities
Shapes == {s \in (0..MaxCells) \X (0..MaxCaps) : s[1] * s[2] <= MaxCells}

\* every order of the mission indices 0..n-1
MissionOrders(n) ==
    {p \in [1..n -> 0..(n - 1)] : \A i, j \in 1..n : i # j => p[i] # p[j]}

\* the float vectors of length n the optimizer may propose (ties included)
FloatVectors(n) == [1..n -> 0..MaxLevel]

\* ------------------------------------------------------------ specification
\* The output files; file_prefix, fixed by the configuration, is left out of
\* the names.
FileNames ==
    {"simplified_readiness.csv", "simplified_dependency.csv",
     "cost_matrix.csv", "cap_growth_matrix.csv",
     "optimized_readiness.csv", "optimized_dependency.csv"}

\* save_results set from the start
SearchMode_Recording == TRUE

\* save_results = False
SearchMode == FALSE

\* the frames of load_and_merge_data once it has returned: none
NoFrame == [columns |-> <<>>, index |-> <<>>, cells |-> <<>>]

\* create_combined_roadmap is not called by the optimizer script.
NotCombining ==
    /\ combine_pc = "idle"
    /\ options = [show_summary |-> FALSE, export_simplified |-> FALSE,
                  apply_value_cleaning |-> TRUE]
    /\ roadmap_data = [use_cases |-> <<>>]

\* The globals once load_and_merge_data has returned a matrix of one of the
\* shapes with entries among cells, under one of the cost models; no matrix
\* of cost_function exists yet.
LoadedWith(shapes, cells, models) ==
    /\ \E s \in shapes :
          /\ use_cases = [i \in 1..s[1] |-> i]
          /\ capabilities = [c \in 1..s[2] |-> c]
          /\ use_case_data \in [1..s[1] -> [1..s[2] -> cells]]
    /\ active_model \in models
    /\ save_results = SearchMode
    /\ readiness_progression_matrix = <<>>
    /\ upgrade_cost_matrix = <<>>
    /\ penalty_cost_matrix = <<>>
    /\ cost_progression_matrix = <<>>
    /\ cost = 0
    /\ pc = "idle"
    /\ evals = 0
    /\ result_x = <<>>
    /\ result_fun = 0
    /\ success = FALSE
    /\ optimal_permutation = <<>>
    /\ stdout = <<>>
    /\ files = [f \in FileNames |-> <<>>]
    /\ df_readiness = NoFrame
    /\ df_dependency = NoFrame
    /\ exc = "none"
    /\ NotCombining

\* The same under the configured cost model.
Loaded(shapes, cells) == LoadedWith(shapes, cells, {ConfiguredModel})

\* the ordered mission list assigned to the global use_cases
ReadOnlyGlobals_Reordered(p) ==
    /\ use_cases' = [k \in 1..Len(p) |-> use_cases[p[k] + 1]]
    /\ UNCHANGED <<capabilities, use_case_data>>

\* cost_function assigns none of the globals it declares.
ReadOnlyGlobals(p) == UNCHANGED <<use_cases, capabilities, use_case_data>>

\* What cost_function(p) prints when save_results is set: p_vector, then for
\* each step this_cost, the cost_progression_matrix so far and an empty line.
RECURSIVE StepPrints(_, _)
StepPrints(cpm, k) ==
    IF k = 0 THEN <<>>
    ELSE StepPrints(cpm, k - 1) \o <<cpm[k], SubSeq(cpm, 1, k), "">>

\* The rows a csv.writer has written after row n of a table: the header with
\* the capabilities, then one row per mission of order, labelled with it.
RECURSIVE TableRows(_, _, _, _)
TableRows(caps, order, matrix, n) ==
    IF n = 0 THEN << <<"">> \o caps >>
    ELSE Append(TableRows(caps, order, matrix, n - 1), <<order[n]>> \o matrix[n])

\* the missions in the order of the sheet, whatever p is
UseCaseOrder_Listed(p, cases) == [k \in 1..Len(p) |-> cases[k]]

\* use_case_order of cost_function
UseCaseOrder(p, cases) == [k \in 1..Len(p) |-> cases[p[k] + 1]]

\* The body of cost_function(p) with save_results = recording.
\* With no mission, use_case_data_ordered[0] raises IndexError before any
\* matrix is created.  Otherwise the loop runs; when recording, the order and
\* the steps are printed and the two tables are written, and a matrix with
\* fewer rows than missions raises IndexError after the header of
\* cost_matrix.csv.
Call(p, recording) ==
    /\ ReadOnlyGlobals(p)
    /\ IF Len(p) = 0
       THEN /\ pc' = "raised"
            /\ exc' = "IndexError"
            /\ stdout' = IF recording THEN Append(stdout, p) ELSE stdout
            /\ UNCHANGED <<readiness_progression_matrix, upgrade_cost_matrix,
                           penalty_cost_matrix, cost_progression_matrix, cost,
                           files>>
       ELSE LET r == cost_function(p, use_cases, use_case_data, active_model)
                order == UseCaseOrder(p, use_cases)
                complete == Len(r.cpm) >= Len(p)
            IN  /\ readiness_progression_matrix' = r.rpm
                /\ upgrade_cost_matrix' = r.ucm
                /\ penalty_cost_matrix' = r.pcm
                /\ cost_progression_matrix' = r.cpm
                /\ cost' = r.cost
                /\ stdout' = IF recording
                             THEN Append(stdout, p) \o StepPrints(r.cpm, Len(r.cpm))
                             ELSE stdout
                /\ files' =
                      IF ~recording THEN files
                      ELSE IF complete
                           THEN [files EXCEPT
                                   !["cost_matrix.csv"] =
                                       TableRows(capabilities, order, r.cpm, Len(p)),
                                   !["cap_growth_matrix.csv"] =
                                       TableRows(capabilities, order, r.rpm, Len(p))]
                           ELSE [files EXCEPT
                                   !["cost_matrix.csv"] =
                                       TableRows(capabilities, order, r.cpm, 0)]
                /\ pc' = IF recording /\ ~complete THEN "raised" ELSE "returned"
                /\ exc' = IF recording /\ ~complete THEN "IndexError" ELSE exc

\* ---- the cost evaluator: cost_function on every matrix and mission order
Init ==
    /\ Loaded(Shapes, Cells)
    /\ main_pc = "call"
    /\ float_vector = <<>>
    /\ p_vector \in MissionOrders(Len(use_cases))

\* The call cost_function(p_vector).
CostFunction ==
    /\ pc = "idle"
    /\ main_pc = "call"
    /\ Call(p_vector, save_results)
    /\ UNCHANGED <<active_model, save_results, float_vector, p_vector>>
    /\ UNCHANGED mainVars
    /\ UNCHANGED frames
    /\ UNCHANGED combineVars

Next == CostFunction

Spec == Init /\ [][Next]_vars

\* ---- the permutation encoder: cost_wrapper on every float vector
\* The matrices of the encoder runs: one capability, each mission either
\* unneeded or critical.
EncoderShapes == {s \in Shapes : s[2] = 1}

EncoderCells == {<<0, 0>>, <<0, 10>>}

EncoderInit ==
    /\ Loaded(EncoderShapes, EncoderCells)
    /\ main_pc = "call"
    /\ float_vector \in FloatVectors(Len(use_cases))
    /\ p_vector = <<>>

\* The call cost_wrapper(float_vector) by the optimizer.
CostWrapper ==
    /\ pc = "idle"
    /\ main_pc = "call"
    /\ p_vector' = argsort(float_vector)
    /\ Call(argsort(float_vector), save_results)
    /\ UNCHANGED <<active_model, save_results, float_vector>>
    /\ UNCHANGED mainVars
    /\ UNCHANGED frames
    /\ UNCHANGED combineVars

EncoderNext == CostWrapper

EncoderSpec == EncoderInit /\ [][EncoderNext]_vars

\* ---- main(): load, search, decode, record, save
\* the matrices of the runs of main
MainShapes == {s \in Shapes : s[1] <= MaxSearchMissions}

MainCells == {<<0, 0>>, <<5, 10>>}

\* bounds = [(0, 1)] * vector_length: the end points of each component
SearchLevels == {0, 1}

\* the candidates of the optimizer: the corners of the box [0,1]^n (equal
\* components included, which argsort decodes in index order)
SearchVectors(n) == [1..n -> SearchLevels]

\* The rows of a simplified or optimized sheet: the header with the
\* capabilities, then for each mission of order its name and its readiness
\* (which = 1) or dependency (which = 2) values.
SheetRows(caps, order, data, which) ==
    << <<"">> \o caps >> \o
    [k \in 1..Len(order) |->
        <<order[k]>> \o [c \in 1..Len(data[order[k]]) |-> data[order[k]][c][which]]]

\* "Processing use_case: ..." for each mission of order
ProcessingPrints(order) ==
    [k \in 1..Len(order) |-> <<"Processing use_case", order[k]>>]

\* main does not look at result.success: the best vector is decoded whether
\* the optimizer converged or not.
AfterSearch_Checked(converged) == IF converged THEN "found" ELSE "failed"

AfterSearch(converged) == "found"

MainInit ==
    /\ Loaded(MainShapes, MainCells)
    /\ main_pc = "start"
    /\ float_vector = <<>>
    /\ p_vector = <<>>

\* main up to the optimizer: the data is loaded (the globals hold what
\* load_and_merge_data returns) and the simplified sheets are written.
StartMain ==
    /\ main_pc = "start"
    /\ pc = "idle"
    /\ main_pc' = "optimizing"
    /\ stdout' = stdout \o
          <<"Loading and processing data...",
            "Generating simplified CSV files...",
            "Successfully generated the simplified files",
            "Optimizing use_case order...">>
    /\ files' = [files EXCEPT
          !["simplified_readiness.csv"] =
              SheetRows(capabilities, use_cases, use_case_data, 1),
          !["simplified_dependency.csv"] =
              SheetRows(capabilities, use_cases, use_case_data, 2)]
    /\ UNCHANGED <<use_cases, capabilities, use_case_data, active_model,
                   save_results, float_vector, p_vector,
                   readiness_progression_matrix, upgrade_cost_matrix,
                   penalty_cost_matrix, cost_progression_matrix, cost, pc,
                   evals, result_x, result_fun, success, optimal_permutation,
                   df_readiness, df_dependency>>
    /\ UNCHANGED combineVars
    /\ UNCHANGED exc

\* differential_evolution refuses an empty list of bounds (no mission) with
\* a ValueError.
OptimizerRejects ==
    /\ main_pc = "optimizing"
    /\ pc = "idle"
    /\ Len(use_cases) = 0
    /\ pc' = "raised"
    /\ exc' = "ValueError"
    /\ UNCHANGED <<use_cases, capabilities, use_case_data, active_model,
                   save_results, float_vector, p_vector,
                   readiness_progression_matrix, upgrade_cost_matrix,
                   penalty_cost_matrix, cost_progression_matrix, cost,
                   main_pc, evals, result_x, result_fun, success,
                   optimal_permutation, stdout, files, df_readiness,
                   df_dependency>>
    /\ UNCHANGED combineVars

\* The optimizer evaluates one candidate: cost_wrapper(v).  The candidate
\* becomes the best vector when it is the first or costs less than the best;
\* on an equal cost it may replace the best or not.
SearchEvaluate ==
    /\ main_pc = "optimizing"
    /\ pc # "raised"
    /\ evals < MaxEvals
    /\ \E v \in SearchVectors(Len(use_cases)) : \E replace \in BOOLEAN :
          /\ float_vector' = v
          /\ p_vector' = argsort(v)
          /\ Call(argsort(v), save_results)
          /\ IF Len(v) = 0
             THEN UNCHANGED <<result_x, result_fun>>
             ELSE IF \/ evals = 0
                     \/ cost' < result_fun
                     \/ (cost' = result_fun /\ replace)
                  THEN result_x' = v /\ result_fun' = cost'
                  ELSE UNCHANGED <<result_x, result_fun>>
    /\ evals' = evals + 1
    /\ UNCHANGED <<active_model, save_results, main_pc, success,
                   optimal_permutation, df_readiness, df_dependency>>
    /\ UNCHANGED combineVars

\* differential_evolution returns, converged or with its budget exhausted, and
\* main decodes the best vector.
SearchReturns ==
    /\ main_pc = "optimizing"
    /\ pc = "returned"
    /\ \E converged \in BOOLEAN :
          /\ converged \/ evals = MaxEvals
          /\ success' = converged
          /\ main_pc' = AfterSearch(converged)
    /\ optimal_permutation' = argsort(result_x)
    /\ stdout' = stdout \o
          << <<"Optimal Vector Found", argsort(result_x)>>,
             <<"Minimum Cost Found", result_fun>>,
             "Saving results..." >>
    /\ UNCHANGED <<use_cases, capabilities, use_case_data, active_model,
                   save_results, float_vector, p_vector,
                   readiness_progression_matrix, upgrade_cost_matrix,
                   penalty_cost_matrix, cost_progression_matrix, cost, pc,
                   evals, result_x, result_fun, files, df_readiness,
                   df_dependency>>
    /\ UNCHANGED combineVars
    /\ UNCHANGED exc

\* save_results = True; cost_function(optimal_permutation)
Record ==
    /\ main_pc = "found"
    /\ save_results' = TRUE
    /\ p_vector' = optimal_permutation
    /\ Call(optimal_permutation, TRUE)
    /\ main_pc' = "recorded"
    /\ UNCHANGED <<active_model, float_vector, evals, result_x, result_fun,
                   success, optimal_permutation, df_readiness, df_dependency>>
    /\ UNCHANGED combineVars

\* save_optimized_files and the last messages of main
SaveOptimized ==
    /\ main_pc = "recorded"
    /\ pc = "returned"
    /\ main_pc' = "done"
    /\ files' = [files EXCEPT
          !["optimized_readiness.csv"] =
              SheetRows(capabilities, UseCaseOrder(optimal_permutation, use_cases),
                        use_case_data, 1),
          !["optimized_dependency.csv"] =
              SheetRows(capabilities, UseCaseOrder(optimal_permutation, use_cases),
                        use_case_data, 2)]
    /\ stdout' = stdout
          \o ProcessingPrints(UseCaseOrder(optimal_permutation, use_cases))
          \o <<"Optimization complete!",
               <<"Results saved with prefix", file_prefix(active_model)>> >>
    /\ UNCHANGED <<use_cases, capabilities, use_case_data, active_model,
                   save_results, float_vector, p_vector,
                   readiness_progression_matrix, upgrade_cost_matrix,
                   penalty_cost_matrix, cost_progression_matrix, cost, pc,
                   evals, result_x, result_fun, success, optimal_permutation,
                   df_readiness, df_dependency>>
    /\ UNCHANGED combineVars
    /\ UNCHANGED exc

\* the exceptions the steps of main raise
MainExceptions ==
    {"FileNotFoundError", "KeyError", "ValueError", "IndexError", "OSError"}

\* the clause for FileNotFoundError alone
Handled_FileNotFound(e) == e = "FileNotFoundError"

\* except FileNotFoundError ... except Exception: every exception of the
\* steps is caught by one of the two clauses
Handled(e) == e \in MainExceptions

\* The handlers of main: an exception raised by the load, by the optimizer,
\* by cost_function (in the search or in the recording run) or by a write is
\* printed and main ends; FileNotFoundError has its own two lines.
HandleError ==
    /\ main_pc \in {"load", "start", "optimizing", "found", "recorded"}
    /\ pc = "raised"
    /\ IF Handled(exc)
       THEN /\ main_pc' = "failed"
            /\ stdout' =
                  IF exc = "FileNotFoundError"
                  THEN stdout \o <<"Error: Make sure the files are in the same directory",
                                   "Details">>
                  ELSE Append(stdout, "An error occurred")
       ELSE /\ main_pc' = "propagated"
            /\ UNCHANGED stdout
    /\ UNCHANGED <<use_cases, capabilities, use_case_data, active_model,
                   save_results, float_vector, p_vector,
                   readiness_progression_matrix, upgrade_cost_matrix,
                   penalty_cost_matrix, cost_progression_matrix, cost, pc,
                   evals, result_x, result_fun, success, optimal_permutation,
                   files, df_readiness, df_dependency, exc>>
    /\ UNCHANGED combineVars

MainNext ==
    \/ StartMain
    \/ OptimizerRejects
    \/ SearchEvaluate
    \/ SearchReturns
    \/ Record
    \/ SaveOptimized
    \/ HandleError

MainSpec == MainInit /\ [][MainNext]_vars

\* ---- main() with the failures of its environment
\* main is called: nothing is loaded yet.
FaultInit ==
    /\ LoadedWith({<<0, 0>>}, {}, {ConfiguredModel})
    /\ main_pc = "load"
    /\ float_vector = <<>>
    /\ p_vector = <<>>

\* load_and_merge_data as main sees it: a file is missing
\* (FileNotFoundError), the dependency sheet lacks an entry (KeyError), or
\* the roadmap matrix of the two sheets is returned.
LoadRoadmap ==
    /\ main_pc = "load"
    /\ pc = "idle"
    /\ \E outcome \in {"FileNotFoundError", "KeyError", "loaded"} :
          IF outcome = "loaded"
          THEN /\ \E s \in MainShapes :
                     /\ use_cases' = [i \in 1..s[1] |-> i]
                     /\ capabilities' = [c \in 1..s[2] |-> c]
                     /\ use_case_data' \in [1..s[1] -> [1..s[2] -> MainCells]]
               /\ main_pc' = "start"
               /\ UNCHANGED <<pc, exc, stdout>>
          ELSE /\ pc' = "raised"
               /\ exc' = outcome
               /\ stdout' = Append(stdout, "Loading and processing data...")
               /\ UNCHANGED <<use_cases, capabilities, use_case_data, main_pc>>
    /\ UNCHANGED <<active_model, save_results, float_vector, p_vector,
                   readiness_progression_matrix, upgrade_cost_matrix,
                   penalty_cost_matrix, cost_progression_matrix, cost,
                   evals, result_x, result_fun, success, optimal_permutation,
                   files, df_readiness, df_dependency>>
    /\ UNCHANGED combineVars

\* generate_simplified_csvs cannot open its first or its second file.
SimplifiedFails ==
    /\ main_pc = "start"
    /\ pc = "idle"
    /\ pc' = "raised"
    /\ exc' = "OSError"
    /\ stdout' = stdout \o
          <<"Loading and processing data...",
            "Generating simplified CSV files...">>
    /\ \E written \in {0, 1} :
          files' = IF written = 0 THEN files
                   ELSE [files EXCEPT
                           !["simplified_readiness.csv"] =
                               SheetRows(capabilities, use_cases, use_case_data, 1)]
    /\ UNCHANGED <<use_cases, capabilities, use_case_data, active_model,
                   save_results, float_vector, p_vector,
                   readiness_progression_matrix, upgrade_cost_matrix,
                   penalty_cost_matrix, cost_progression_matrix, cost,
                   main_pc, evals, result_x, result_fun, success,
                   optimal_permutation, df_readiness, df_dependency>>
    /\ UNCHANGED combineVars

\* The recording run cannot open cost_matrix.csv, or cap_growth_matrix.csv
\* after it: the steps are computed and printed, then OSError is raised.
RecordFails ==
    /\ main_pc = "found"
    /\ save_results' = TRUE
    /\ p_vector' = optimal_permutation
    /\ LET r == cost_function(optimal_permutation, use_cases, use_case_data,
                              active_model)
       IN  /\ readiness_progression_matrix' = r.rpm
           /\ upgrade_cost_matrix' = r.ucm
           /\ penalty_cost_matrix' = r.pcm
           /\ cost_progression_matrix' = r.cpm
           /\ cost' = r.cost
           /\ stdout' = Append(stdout, optimal_permutation)
                            \o StepPrints(r.cpm, Len(r.cpm))
           /\ \E written \in {0, 1} :
                 files' = IF written = 0 THEN files
                          ELSE [files EXCEPT
                                  !["cost_matrix.csv"] =
                                      TableRows(capabilities,
                                                UseCaseOrder(optimal_permutation, use_cases),
                                                r.cpm, Len(optimal_permutation))]
    /\ pc' = "raised"
    /\ exc' = "OSError"
    /\ main_pc' = "recorded"
    /\ ReadOnlyGlobals(optimal_permutation)
    /\ UNCHANGED <<active_model, float_vector, evals, result_x, result_fun,
                   success, optimal_permutation, df_readiness, df_dependency>>
    /\ UNCHANGED combineVars

\* save_optimized_files cannot open its first or its second file.
SaveFails ==
    /\ main_pc = "recorded"
    /\ pc = "returned"
    /\ pc' = "raised"
    /\ exc' = "OSError"
    /\ \E written \in {0, 1} :
          files' = IF written = 0 THEN files
                   ELSE [files EXCEPT
                           !["optimized_readiness.csv"] =
                               SheetRows(capabilities,
                                         UseCaseOrder(optimal_permutation, use_cases),
                                         use_case_data, 1)]
    /\ UNCHANGED <<use_cases, capabilities, use_case_data, active_model,
                   save_results, float_vector, p_vector,
                   readiness_progression_matrix, upgrade_cost_matrix,
                   penalty_cost_matrix, cost_progression_matrix, cost,
                   main_pc, evals, result_x, result_fun, success,
                   optimal_permutation, stdout, df_readiness, df_dependency>>
    /\ UNCHANGED combineVars

FaultNext ==
    \/ LoadRoadmap
    \/ StartMain
    \/ SimplifiedFails
    \/ OptimizerRejects
    \/ SearchEvaluate
    \/ SearchReturns
    \/ Record
    \/ RecordFails
    \/ SaveOptimized
    \/ SaveFails
    \/ HandleError

FaultSpec == FaultInit /\ [][FaultNext]_vars

\* ---- main() under every cost model of the configuration
\* the numbers of the listed cost models
ListedModels == {cost_models[i][2] : i \in 1..Len(cost_models)}

\* ---- the cost evaluator under every listed cost model
\* Matrices with a dependency on either side of each of the three
\* thresholds (0, 0.2, 0.5, 0.9), and a capability above the operational
\* readiness.
ModelCells == {<<0, 0>>, <<0, 2>>, <<0, 5>>, <<0, 9>>, <<12, 5>>}

ModelInit ==
    /\ LoadedWith(Shapes, ModelCells, ListedModels)
    /\ main_pc = "call"
    /\ float_vector = <<>>
    /\ p_vector \in MissionOrders(Len(use_cases))

ModelSpec == ModelInit /\ [][Next]_vars

\* active_model set to any listed cost model; nothing checks the choice before
\* main runs.
ConfigInit ==
    /\ LoadedWith(MainShapes, MainCells, ListedModels)
    /\ main_pc = "start"
    /\ float_vector = <<>>
    /\ p_vector = <<>>

ConfigSpec == ConfigInit /\ [][MainNext]_vars

\* ---- load_and_merge_data: the two sheets, cleaned and merged
\* the characters of the cells: a digit, the point, the blank, the dash that
\* ends the number of a cell ("9 - operational"), and a letter
RawChars == {"1", ".", " ", "-", "x"}

Digits == {"0", "1", "2", "3", "4", "5", "6", "7", "8", "9"}

Spaces == {" "}

DigitValue(ch) ==
    CASE ch = "0" -> 0 [] ch = "1" -> 1 [] ch = "2" -> 2 [] ch = "3" -> 3
      [] ch = "4" -> 4 [] ch = "5" -> 5 [] ch = "6" -> 6 [] ch = "7" -> 7
      [] ch = "8" -> 8 [] ch = "9" -> 9

\* the texts of at most MaxStrLen characters
RawStrings == UNION {[1..n -> RawChars] : n \in 0..MaxStrLen}

\* A cell as pandas hands it to clean_value: a str, or a float (NaN for a
\* blank cell, the number in a column of plain numbers).
NotAString == [is_str |-> FALSE, text |-> <<>>]

Text(s) == [is_str |-> TRUE, text |-> s]

RawCells == {NotAString} \cup {Text(s) : s \in RawStrings}

\* the cells of the readiness sheets: blank, "1-", "x", "11-"
ReadinessCells ==
    {NotAString, Text(<<"1", "-">>), Text(<<"x">>), Text(<<"1", "1", "-">>)}

\* the first position from i on whose character is not in chars
RECURSIVE SkipWhile(_, _, _)
SkipWhile(s, i, chars) ==
    IF i <= Len(s) /\ s[i] \in chars THEN SkipWhile(s, i + 1, chars) ELSE i

\* int() of a text of digits
RECURSIVE Number(_)
Number(ds) ==
    IF Len(ds) = 0 THEN 0
    ELSE 10 * Number(SubSeq(ds, 1, Len(ds) - 1)) + DigitValue(ds[Len(ds)])

\* float() of the matched number, in tenths: the digits before the point and
\* the first digit after it (a text of MaxStrLen + 1 characters that matches
\* has no second one).
Tenths(whole, fraction) ==
    10 * Number(whole) + (IF Len(fraction) = 0 THEN 0 ELSE DigitValue(fraction[1]))

\* re.match(r"^\s*(\d+\.?\d*)\s*-", s): whether the pattern matches at the
\* start of s, and the digits of group 1 before and after the point
Match(s) ==
    LET a == SkipWhile(s, 1, Spaces)
        b == SkipWhile(s, a, Digits)
        c == IF b <= Len(s) /\ s[b] = "." THEN b + 1 ELSE b
        d == SkipWhile(s, c, Digits)
        e == SkipWhile(s, d, Spaces)
    IN  [matched |-> b > a /\ e <= Len(s) /\ s[e] = "-",
         whole |-> SubSeq(s, a, b - 1),
         fraction |-> SubSeq(s, c, d - 1)]

\* the number re.match finds at the start of the text of a cell, in tenths;
\* 0 when the pattern does not match
LeadingNumber(value) ==
    LET m == Match(value.text)
    IN  IF m.matched THEN Tenths(m.whole, m.fraction) ELSE 0

\* clean_value: re.match(r"^\s*(\d+\.?\d*)\s*-", value) on a str, in tenths;
\* 0 for every other value.
clean_value(value) ==
    IF value.is_str THEN LeadingNumber(value) ELSE 0

\* the labels of a list
Range(s) == {s[i] : i \in 1..Len(s)}

\* the list of a set of labels, in the order of the sheet
Ascending(S) ==
    [i \in 1..Cardinality(S) |->
        CHOOSE x \in S : Cardinality({y \in S : y < x}) = i - 1]

\* The sheets with the missions of cols as columns, the capabilities of rows
\* as index and cells among cells.
Frames(cols, rows, cells) ==
    {[columns |-> Ascending(cols), index |-> Ascending(rows), cells |-> f] :
        f \in [rows -> [cols -> cells]]}

\* the readiness sheets of the runs: one capability, no mission or one
ReadinessFrames == Frames({}, {1}, ReadinessCells) \cup Frames({1}, {1}, ReadinessCells)

\* the dependency sheets of the runs: the mission and the capability of the
\* readiness sheet, each one there or not
DependencyFrames ==
    UNION {Frames(cols, rows, RawCells) : cols \in SUBSET {1}, rows \in SUBSET {1}}

\* df.loc[capability, use_case] finds the label pair
Located(df, capability, use_case) ==
    capability \in Range(df.index) /\ use_case \in Range(df.columns)

\* df[col].apply(clean_value), then df.loc[capability, use_case]
Cleaned(df, capability, use_case) == clean_value(df.cells[capability][use_case])

\* main before load_and_merge_data: no global of the roadmap is assigned, the
\* two files hold the sheets.
LoadInit ==
    /\ df_readiness \in ReadinessFrames
    /\ df_dependency \in DependencyFrames
    /\ use_cases = <<>>
    /\ capabilities = <<>>
    /\ use_case_data = <<>>
    /\ active_model = ConfiguredModel
    /\ save_results = SearchMode
    /\ float_vector = <<>>
    /\ p_vector = <<>>
    /\ readiness_progression_matrix = <<>>
    /\ upgrade_cost_matrix = <<>>
    /\ penalty_cost_matrix = <<>>
    /\ cost_progression_matrix = <<>>
    /\ cost = 0
    /\ pc = "idle"
    /\ main_pc = "load"
    /\ evals = 0
    /\ result_x = <<>>
    /\ result_fun = 0
    /\ success = FALSE
    /\ optimal_permutation = <<>>
    /\ stdout = <<>>
    /\ files = [f \in FileNames |-> <<>>]
    /\ exc = "none"
    /\ NotCombining

\* use_case_data, use_cases, capabilities = load_and_merge_data(...): the
\* cells are cleaned and every pair of the readiness sheet is looked up in
\* both sheets; a pair the dependency sheet does not have raises KeyError
\* before anything is returned.  Readiness is kept in whole levels (the
\* readiness cells hold whole numbers), dependency in tenths.
LoadAndMerge ==
    /\ main_pc = "load"
    /\ pc = "idle"
    /\ stdout' = Append(stdout, "Loading and processing data...")
    /\ IF \A m \in Range(df_readiness.columns) :
             \A c \in Range(df_readiness.index) : Located(df_dependency, c, m)
       THEN /\ use_cases' = df_readiness.columns
            /\ capabilities' = df_readiness.index
            /\ use_case_data' =
                  [m \in Range(df_readiness.columns) |->
                      [c \in Range(df_readiness.index) |->
                          <<Cleaned(df_readiness, c, m) \div 10,
                            Cleaned(df_dependency, c, m)>>]]
            /\ main_pc' = "loaded"
            /\ pc' = "returned"
            /\ UNCHANGED exc
       ELSE /\ pc' = "raised"
            /\ exc' = "KeyError"
            /\ UNCHANGED <<use_cases, capabilities, use_case_data, main_pc>>
    /\ UNCHANGED <<active_model, save_results, float_vector, p_vector,
                   readiness_progression_matrix, upgrade_cost_matrix,
                   penalty_cost_matrix, cost_progression_matrix, cost,
                   evals, result_x, result_fun, success, optimal_permutation,
                   files, df_readiness, df_dependency>>
    /\ UNCHANGED combineVars

LoadNext ==
    \/ LoadAndMerge
    \/ HandleError

LoadSpec == LoadInit /\ [][LoadNext]_vars

\* ---- create_combined_roadmap (combine.py): load, clean, align, combine
\* A cell of a cleaned frame that holds a number, in tenths; NotAString is
\* NaN there, and None in an entry of the roadmap.
Float(t) == [is_str |-> FALSE, text |-> <<>>, tenths |-> t]

IsNaN(cell) == cell = NotAString

\* clean_value of combine.py: the leading number of a str, NaN otherwise
combine_clean_value(value) ==
    IF value.is_str /\ Match(value.text).matched
    THEN Float(LeadingNumber(value))
    ELSE NotAString

\* the cells of the sheets given to create_combined_roadmap: blank, "1-", "x"
CombineCells == {NotAString, Text(<<"1", "-">>), Text(<<"x">>)}

\* the sheets: up to two use cases, the capability there or not
CombineFrames ==
    UNION {Frames(cols, rows, CombineCells) :
              cols \in SUBSET {1, 2}, rows \in SUBSET {1}}

\* df.loc[rows, cols]
Restrict(df, rows, cols) ==
    [columns |-> Ascending(cols), index |-> Ascending(rows),
     cells |-> [r \in rows |-> [c \in cols |-> df.cells[r][c]]]]

\* dropna(how='all', axis=0) and then dropna(how='all', axis=1)
DropEmpty(df) ==
    LET rows == {r \in Range(df.index) :
                    \E c \in Range(df.columns) : ~IsNaN(df.cells[r][c])}
        cols == {c \in Range(df.columns) :
                    \E r \in rows : ~IsNaN(df.cells[r][c])}
    IN  Restrict(df, rows, cols)

\* df[col] = df[col].apply(clean_value) for every column
CleanCells(df) ==
    [df EXCEPT !.cells =
        [r \in Range(df.index) |->
            [c \in Range(df.columns) |-> combine_clean_value(df.cells[r][c])]]]

\* the rows to_csv writes for the transposed frame: the capabilities, then
\* one row per use case
Transposed(df) ==
    << <<"">> \o df.index >> \o
    [k \in 1..Len(df.columns) |->
        <<df.columns[k]>> \o
        [i \in 1..Len(df.index) |-> df.cells[df.index[i]][df.columns[k]]]]

\* build_combined_structure and RoadmapData.from_dict: stack() drops the NaN
\* cells, so a use case has the capabilities whose dependency is there, each
\* with its dependency and its readiness (None when that is NaN).  The texts
\* str() makes of the values are kept as the values.
Combined(dep, read) ==
    LET filled(u) == {c \in Range(dep.index) : ~IsNaN(dep.cells[c][u])}
        names == {u \in Range(dep.columns) : filled(u) # {}}
    IN  [use_cases |->
            [u \in names |->
                [c \in filled(u) |->
                    [dependency |-> dep.cells[c][u],
                     readiness |-> read.cells[c][u]]]]]

\* RoadmapData(use_cases={})
EmptyRoadmap == [use_cases |-> <<>>]

\* the exceptions the steps of create_combined_roadmap raise
CombineExceptions ==
    {"FileNotFoundError", "ParserError", "AttributeError", "ZeroDivisionError",
     "OSError"}

\* an except clause for FileNotFoundError only
Caught_FileNotFound(e) == e = "FileNotFoundError"

\* except Exception as e: every exception of the steps is an Exception
Caught(e) == e \in CombineExceptions

\* create_combined_roadmap is called with two files holding the sheets and
\* with any keyword arguments.
CombineInit ==
    /\ df_dependency \in CombineFrames
    /\ df_readiness \in CombineFrames
    /\ options \in [show_summary : BOOLEAN, export_simplified : BOOLEAN,
                     apply_value_cleaning : BOOLEAN]
    /\ combine_pc = "load"
    /\ roadmap_data = EmptyRoadmap
    /\ exc = "none"
    /\ use_cases = <<>>
    /\ capabilities = <<>>
    /\ use_case_data = <<>>
    /\ active_model = ConfiguredModel
    /\ save_results = SearchMode
    /\ float_vector = <<>>
    /\ p_vector = <<>>
    /\ readiness_progression_matrix = <<>>
    /\ upgrade_cost_matrix = <<>>
    /\ penalty_cost_matrix = <<>>
    /\ cost_progression_matrix = <<>>
    /\ cost = 0
    /\ pc = "idle"
    /\ main_pc = "idle"
    /\ evals = 0
    /\ result_x = <<>>
    /\ result_fun = 0
    /\ success = FALSE
    /\ optimal_permutation = <<>>
    /\ stdout = <<>>
    /\ files = [f \in FileNames |-> <<>>]

\* what no step of create_combined_roadmap touches
OptimizerUnchanged ==
    UNCHANGED <<use_cases, capabilities, use_case_data, active_model,
                save_results, float_vector, p_vector,
                readiness_progression_matrix, upgrade_cost_matrix,
                penalty_cost_matrix, cost_progression_matrix, cost, pc,
                main_pc, evals, result_x, result_fun, success,
                optimal_permutation, options>>

\* load_csv_files: a file is missing or cannot be parsed (the error is
\* printed and raised again), or both sheets are read.
LoadCsvFiles ==
    /\ combine_pc = "load"
    /\ \E outcome \in {"FileNotFoundError", "ParserError", "read"} :
          IF outcome = "read"
          THEN /\ combine_pc' = "clean"
               /\ stdout' = Append(stdout, "Successfully loaded CSV files")
               /\ UNCHANGED exc
          ELSE /\ combine_pc' = "except"
               /\ exc' = outcome
               /\ stdout' = Append(stdout,
                     IF outcome = "FileNotFoundError"
                     THEN "Error: Please make sure the CSV files are in the correct location."
                     ELSE "An error occurred while reading the CSV files")
    /\ UNCHANGED <<df_dependency, df_readiness, files, roadmap_data>>
    /\ OptimizerUnchanged

\* clean_dataframes: an index of numbers has no .str accessor
\* (AttributeError); otherwise the empty rows and columns are dropped and,
\* if asked, the cells are cleaned.
CleanDataframes ==
    /\ combine_pc = "clean"
    /\ \E text_labels \in BOOLEAN :
          IF text_labels
          THEN /\ df_dependency' =
                     IF options.apply_value_cleaning
                     THEN CleanCells(DropEmpty(df_dependency))
                     ELSE DropEmpty(df_dependency)
               /\ df_readiness' =
                     IF options.apply_value_cleaning
                     THEN CleanCells(DropEmpty(df_readiness))
                     ELSE DropEmpty(df_readiness)
               /\ stdout' = IF options.apply_value_cleaning
                            THEN Append(stdout, "Applying enhanced value cleaning...")
                            ELSE stdout
               /\ combine_pc' = IF options.show_summary THEN "summary" ELSE "align"
               /\ UNCHANGED exc
          ELSE /\ combine_pc' = "except"
               /\ exc' = "AttributeError"
               /\ UNCHANGED <<df_dependency, df_readiness, stdout>>
    /\ UNCHANGED <<files, roadmap_data>>
    /\ OptimizerUnchanged

\* display_data_summary: the counts are printed; with no use case or no
\* capability the completeness divides by zero, which raises or prints nan
\* according to the type of number pandas has returned.
DisplayDataSummary ==
    /\ combine_pc = "summary"
    /\ LET n == Len(df_dependency.columns)
           m == Len(df_dependency.index)
           counts == <<"DATA SUMMARY", n, m>>
       IN  \E raises \in BOOLEAN :
              IF raises /\ n * m = 0
              THEN /\ combine_pc' = "except"
                   /\ exc' = "ZeroDivisionError"
                   /\ stdout' = Append(stdout, counts)
              ELSE /\ combine_pc' = "align"
                   /\ stdout' = stdout \o <<counts, "Data completeness">>
                   /\ UNCHANGED exc
    /\ UNCHANGED <<df_dependency, df_readiness, files, roadmap_data>>
    /\ OptimizerUnchanged

\* align_dataframes: both frames cut to the common use cases and capabilities
AlignDataframes ==
    /\ combine_pc = "align"
    /\ LET common_use_cases ==
               Range(df_dependency.columns) \cap Range(df_readiness.columns)
           common_capabilities ==
               Range(df_dependency.index) \cap Range(df_readiness.index)
       IN  /\ df_dependency' =
                 Restrict(df_dependency, common_capabilities, common_use_cases)
           /\ df_readiness' =
                 Restrict(df_readiness, common_capabilities, common_use_cases)
    /\ combine_pc' = IF options.export_simplified THEN "export" ELSE "build"
    /\ UNCHANGED <<stdout, files, roadmap_data, exc>>
    /\ OptimizerUnchanged

\* generate_simplified_csvs of combine.py: the transposed frames are
\* written, or a file cannot be written (OSError).
ExportSimplified ==
    /\ combine_pc = "export"
    /\ \E written \in BOOLEAN :
          IF written
          THEN /\ files' = [files EXCEPT
                     !["simplified_dependency.csv"] = Transposed(df_dependency),
                     !["simplified_readiness.csv"] = Transposed(df_readiness)]
               /\ stdout' = stdout \o
                     <<"Generating simplified CSV files...", "Generated files">>
               /\ combine_pc' = "build"
               /\ UNCHANGED exc
          ELSE /\ stdout' = Append(stdout, "Generating simplified CSV files...")
               /\ combine_pc' = "except"
               /\ exc' = "OSError"
               /\ UNCHANGED files
    /\ UNCHANGED <<df_dependency, df_readiness, roadmap_data>>
    /\ OptimizerUnchanged

\* build_combined_structure, RoadmapData.from_dict, and the return
BuildRoadmap ==
    /\ combine_pc = "build"
    /\ roadmap_data' = Combined(df_dependency, df_readiness)
    /\ stdout' = Append(stdout,
          <<"Successfully created roadmap",
            Cardinality(DOMAIN roadmap_data'.use_cases)>>)
    /\ combine_pc' = "returned"
    /\ UNCHANGED <<df_dependency, df_readiness, files, exc>>
    /\ OptimizerUnchanged

\* except Exception as e: the error is printed and an empty RoadmapData is
\* returned; an exception no clause catches leaves the function.
CombineExcept ==
    /\ combine_pc = "except"
    /\ IF Caught(exc)
       THEN /\ stdout' = Append(stdout, "Error creating combined roadmap")
            /\ roadmap_data' = EmptyRoadmap
            /\ combine_pc' = "returned"
       ELSE /\ combine_pc' = "propagated"
            /\ UNCHANGED <<stdout, roadmap_data>>
    /\ UNCHANGED <<df_dependency, df_readiness, files, exc>>
    /\ OptimizerUnchanged

CombineNext ==
    \/ LoadCsvFiles
    \/ CleanDataframes
    \/ DisplayDataSummary
    \/ AlignDataframes
    \/ ExportSimplified
    \/ BuildRoadmap
    \/ CombineExcept

CombineSpec == CombineInit /\ [][CombineNext]_vars

\* =================================================================== claims
\* Step k (1-based) of the evaluated order and capability c.
Steps == 1..Len(p_vector)

Caps == 1..Len(capabilities)

\* the mission evaluated at step k
StepMission(k) == use_cases[p_vector[k] + 1]

\* baseline readiness and dependency of capability c in the mission of step k
Baseline(k, c) == use_case_data[StepMission(k)][c][1]

Dependency(k, c) == use_case_data[StepMission(k)][c][2]

\* entry c of the row before row k of a matrix; 0 before the first mission
Previous(matrix, k, c) == IF k = 1 THEN 0 ELSE matrix[k - 1][c]

\* every matrix has one row per step and one entry per capability
FullMatrices ==
    /\ Len(readiness_progression_matrix) = Len(p_vector)
    /\ Len(upgrade_cost_matrix) = Len(p_vector)
    /\ Len(penalty_cost_matrix) = Len(p_vector)
    /\ \A k \in Steps :
          /\ Len(readiness_progression_matrix[k]) = Len(capabilities)
          /\ Len(upgrade_cost_matrix[k]) = Len(capabilities)
          /\ Len(penalty_cost_matrix[k]) = Len(capabilities)

\* the larger of two numbers, and of three
Larger(a, b) == IF a >= b THEN a ELSE b

Largest(a, b, c) == Larger(Larger(a, b), c)

\* f(k, c) added up over the steps 1..n and the capabilities 1..m
RECURSIVE RowTotal(_, _, _)
RowTotal(f(_, _), k, m) == IF m = 0 THEN 0 ELSE f(k, m) + RowTotal(f, k, m - 1)

RECURSIVE GridTotal(_, _, _)
GridTotal(f(_, _), n, m) ==
    IF n = 0 THEN 0 ELSE RowTotal(f, n, m) + GridTotal(f, n - 1, m)

\* C1: for every step after the first and every capability, the accumulated
\* readiness recorded by cost_function is at least the value recorded for the
\* same capability at the previous step.
MonotonicReadiness ==
    pc = "returned" =>
        \A k \in 2..Len(readiness_progression_matrix) : \A c \in Caps :
            readiness_progression_matrix[k][c] >= readiness_progression_matrix[k - 1][c]

\* A mission whose baseline is below the readiness already reached was evaluated.
MonotonicReadinessWitness ==
    /\ pc = "returned"
    /\ \E k \in 2..Len(readiness_progression_matrix) : \E c \in Caps :
          /\ Baseline(k, c) < readiness_progression_matrix[k - 1][c]
          /\ Dependency(k, c) < DependencyThreshold(active_model)

\* C2: at each step and capability the new accumulated readiness is
\* max(previous, baseline) when the dependency is strictly below the threshold
\* and max(previous, baseline, 9) when it is at or above the threshold.
RequiredReadiness ==
    pc = "returned" =>
        /\ FullMatrices
        /\ \A k \in Steps : \A c \in Caps :
              LET prev == Previous(readiness_progression_matrix, k, c)
              IN  readiness_progression_matrix[k][c] =
                      IF Dependency(k, c) < 9
                      THEN Larger(prev, Baseline(k, c))
                      ELSE Largest(prev, Baseline(k, c), 9)

\* A dependency exactly at the threshold pulled a capability below 9 up to 9.
RequiredReadinessWitness ==
    /\ pc = "returned"
    /\ \E k \in Steps : \E c \in Caps :
          /\ Dependency(k, c) = 9
          /\ Baseline(k, c) < 9
          /\ Previous(readiness_progression_matrix, k, c) < 9
          /\ readiness_progression_matrix[k][c] = 9

\* C3: at each step and capability, upgrade_cost is max(0, required readiness
\* of the step minus the accumulated readiness of the previous step), the
\* accumulated readiness before the first mission being 0.
UpgradeCostRule ==
    pc = "returned" =>
        /\ FullMatrices
        /\ \A k \in Steps : \A c \in Caps :
              upgrade_cost_matrix[k][c] =
                  Larger(0, readiness_progression_matrix[k][c]
                            - Previous(readiness_progression_matrix, k, c))

\* A capability already above 0 was upgraded further at a later step.
UpgradeCostRuleWitness ==
    /\ pc = "returned"
    /\ \E k \in 2..Len(upgrade_cost_matrix) : \E c \in Caps :
          /\ readiness_progression_matrix[k - 1][c] > 0
          /\ upgrade_cost_matrix[k][c] > 0

StepCost(k, c) == upgrade_cost_matrix[k][c] + penalty_cost_matrix[k][c]

\* C5: the value returned by cost_function is the sum, over every (step,
\* capability) pair of the evaluated order, of upgrade_cost + penalty_cost.
TotalIsSumOfStepCosts ==
    pc = "returned" =>
        /\ FullMatrices
        /\ cost = GridTotal(StepCost, Len(p_vector), Len(capabilities))

\* Two different steps each contributed a positive cost.
TotalIsSumOfStepCostsWitness ==
    /\ pc = "returned"
    /\ \E k1, k2 \in Steps : \E c \in Caps :
          /\ k1 < k2
          /\ upgrade_cost_matrix[k1][c] > 0
          /\ upgrade_cost_matrix[k2][c] > 0

\* C6: the total cost is >= 0 and every upgrade and penalty entry is >= 0.
CostNonNegative ==
    pc = "returned" =>
        /\ cost >= 0
        /\ \A k \in 1..Len(upgrade_cost_matrix) :
              \A c \in 1..Len(upgrade_cost_matrix[k]) :
                  upgrade_cost_matrix[k][c] >= 0
        /\ \A k \in 1..Len(penalty_cost_matrix) :
              \A c \in 1..Len(penalty_cost_matrix[k]) :
                  penalty_cost_matrix[k][c] >= 0

\* An order with a positive cost was evaluated, a later mission's baseline
\* lying below the readiness reached.
CostNonNegativeWitness ==
    /\ pc = "returned"
    /\ cost > 0
    /\ \E k \in 2..Len(readiness_progression_matrix) : \E c \in Caps :
          Baseline(k, c) < readiness_progression_matrix[k - 1][c]

\* The two-mission scenario: one capability, model 1 (threshold 0.9, floor 9),
\* mission A (index 0) with readiness 0 and dependency 1.0, mission B (index 1)
\* with readiness 0 and dependency 0.0.
TwoMissionScenario ==
    /\ Len(use_cases) = 2
    /\ Len(capabilities) = 1
    /\ active_model = 1
    /\ use_case_data[use_cases[1]][1] = <<0, 10>>
    /\ use_case_data[use_cases[2]][1] = <<0, 0>>

\* C7: in the two-mission scenario the order [B,A] has a total cost different
\* from the total cost of [A,B].
OrderingSensitivity ==
    (TwoMissionScenario /\ pc = "returned" /\ p_vector = <<1, 0>>) =>
        cost # cost_function(<<0, 1>>, use_cases, use_case_data, active_model).cost

PermutationValidity ==
    pc # "idle" =>
        /\ Len(p_vector) = Len(float_vector)
        /\ \A i \in 0..(Len(float_vector) - 1) :
              Cardinality({k \in 1..Len(p_vector) : p_vector[k] = i}) = 1

\* A vector of three components with a tie was encoded.
PermutationValidityWitness ==
    /\ pc = "returned"
    /\ Len(float_vector) = 3
    /\ \E i, j \in 1..3 : i # j /\ float_vector[i] = float_vector[j]

\* v and w order their components alike
SameOrder(v, w) ==
    /\ Len(v) = Len(w)
    /\ \A i, j \in 1..Len(v) : (v[i] < v[j]) <=> (w[i] < w[j])

\* C10: two vectors of the same length whose components have the same relative
\* order are encoded to the same permutation; [0.2, 0.9, 0.5] and
\* [0.1, 0.99, 0.5001] (here in ten-thousandths) both give [0, 2, 1].
EncoderDeterminism ==
    /\ pc # "idle" =>
           \A w \in FloatVectors(Len(float_vector)) :
               SameOrder(w, float_vector) => argsort(w) = p_vector
    /\ argsort(<<2000, 9000, 5000>>) = <<0, 2, 1>>
    /\ argsort(<<1000, 9900, 5001>>) = <<0, 2, 1>>

\* A vector ordered like the example (low, high, middle) was encoded to
\* [0, 2, 1], and another vector of the same order exists.
EncoderDeterminismWitness ==
    /\ pc = "returned"
    /\ p_vector = <<0, 2, 1>>
    /\ float_vector[1] < float_vector[3]
    /\ float_vector[3] < float_vector[2]
    /\ \E w \in FloatVectors(3) : w # float_vector /\ SameOrder(w, float_vector)

\* The evaluator with the forcing rule removed, for capability c from step k
\* on: acc is the readiness reached, lastU and lastP the upgrade and penalty of
\* the step before.
RECURSIVE OrganicCost(_, _, _, _, _)
OrganicCost(c, k, acc, lastU, lastP) ==
    IF k > Len(p_vector) THEN 0
    ELSE LET required == Larger(acc, Baseline(k, c))
             upgrade == Larger(0, required - acc)
             penalty == IF lastP > 0 \/ lastU > 0 THEN lastP ELSE 0
         IN  upgrade + penalty + OrganicCost(c, k + 1, required, upgrade, penalty)

RECURSIVE OrganicTotal(_)
OrganicTotal(m) ==
    IF m = 0 THEN 0 ELSE OrganicCost(m, 1, 0, 0, 0) + OrganicTotal(m - 1)

\* every dependency of the matrix is below the threshold 0.9
AllBelowThreshold ==
    \A u \in 1..Len(use_cases) : \A c \in Caps :
        use_case_data[use_cases[u]][c][2] < 9

\* C11: if every dependency is below the threshold, the total cost is the cost
\* of the evaluator with the forcing rule removed, and no accumulated readiness
\* reaches 9 unless a baseline readiness met so far is >= 9.
ZeroDependencyInvariance ==
    (pc = "returned" /\ AllBelowThreshold) =>
        /\ cost = OrganicTotal(Len(capabilities))
        /\ \A k \in 1..Len(readiness_progression_matrix) : \A c \in Caps :
              readiness_progression_matrix[k][c] >= 9 =>
                  \E j \in 1..k : Baseline(j, c) >= 9

\* A matrix without any dependency at the threshold was evaluated at a
\* positive cost, a capability staying below 9.
ZeroDependencyInvarianceWitness ==
    /\ pc = "returned"
    /\ AllBelowThreshold
    /\ Len(p_vector) >= 2
    /\ cost > 0
    /\ \E c \in Caps :
          /\ readiness_progression_matrix[Len(p_vector)][c] > 0
          /\ readiness_progression_matrix[Len(p_vector)][c] < 9

\* C12: the cost of a permutation depends only on the permutation, the matrix
\* and the configuration: an evaluation of the permutation of the optimizer's
\* best vector, whatever was evaluated since that vector was, returns the cost
\* recorded for it.
CostDeterminism ==
    (pc = "returned" /\ evals >= 1 /\ p_vector = argsort(result_x)) =>
        cost = result_fun

\* The third evaluation is of the permutation of the best vector, which is an
\* earlier candidate, at a positive cost.
CostDeterminismWitness ==
    /\ main_pc = "optimizing"
    /\ pc = "returned"
    /\ evals = 3
    /\ float_vector # result_x
    /\ p_vector = argsort(result_x)
    /\ cost > 0

\* C13: every step of main, the calls of cost_wrapper and cost_function in
\* search and in recording mode included, leaves the roadmap matrix, the
\* mission list and the capability list as they were.
RoadmapReadOnly ==
    [][/\ use_case_data' = use_case_data
       /\ use_cases' = use_cases
       /\ capabilities' = capabilities]_vars

\* main has finished after a search that evaluated an order other than the
\* listed one, and after the recording run.
RoadmapReadOnlyWitness ==
    /\ main_pc = "done"
    /\ evals >= 2
    /\ optimal_permutation = <<1, 0>>
    /\ files["cost_matrix.csv"] # <<>>

\* C14: with no mission or one mission, main produces its result without
\* invoking the optimizer (no candidate is evaluated) and without an error.
DegenerateShortCircuit ==
    Len(use_cases) <= 1 => (evals = 0 /\ main_pc # "failed")

\* a cell that is blank or holds no number
Unusable(cell) == ~cell.is_str \/ (Range(cell.text) \cap Digits = {})

\* C15: a pair whose readiness or dependency is missing from its sheet, blank
\* or not a number never makes the load fail, and the value it has in the
\* loaded roadmap matrix is 0.
MissingEntriesAreZero ==
    /\ main_pc # "failed"
    /\ main_pc = "loaded" =>
          \A m \in Range(use_cases) : \A c \in Range(capabilities) :
             /\ Unusable(df_readiness.cells[c][m]) => use_case_data[m][c][1] = 0
             /\ (~Located(df_dependency, c, m) \/ Unusable(df_dependency.cells[c][m]))
                   => use_case_data[m][c][2] = 0

\* C16: under a cost-model selector for which cost_function defines no
\* threshold, main fails before the first cost evaluation of the search: no
\* candidate is ever evaluated.
ConfigurationValidated ==
    active_model \notin {1, 2, 3} => evals = 0

\* the table written to a file, without its header row
Body(file) == Tail(files[file])

\* Row k of the table is labelled with the mission at position k of the
\* solved order and holds row k of the matrix, one value per capability.
RowOfStep(file, matrix, k) ==
    /\ Len(Body(file)[k]) = 1 + Len(capabilities)
    /\ Body(file)[k][1] = use_cases[optimal_permutation[k] + 1]
    /\ \A c \in 1..Len(capabilities) : Body(file)[k][c + 1] = matrix[k][c]

\* C17: once the recording run has returned, cost_matrix.csv and
\* cap_growth_matrix.csv each hold, under the header, exactly one row per
\* mission with one value per capability; row k carries the name of the
\* mission at position k of the solved order and that step's costs, resp.
\* accumulated readiness.
RecordedTables ==
    main_pc \in {"recorded", "done"} =>
        /\ Len(Body("cost_matrix.csv")) = Len(use_cases)
        /\ Len(Body("cap_growth_matrix.csv")) = Len(use_cases)
        /\ \A k \in 1..Len(use_cases) :
              /\ RowOfStep("cost_matrix.csv", cost_progression_matrix, k)
              /\ RowOfStep("cap_growth_matrix.csv", readiness_progression_matrix, k)

\* The recording run has written the tables of two missions solved in the
\* order second, first, the second mission paying an upgrade.
RecordedTablesWitness ==
    /\ main_pc = "recorded"
    /\ pc = "returned"
    /\ optimal_permutation = <<1, 0>>
    /\ Body("cost_matrix.csv") = << <<2, 9>>, <<1, 0>> >>
    /\ Body("cap_growth_matrix.csv") = << <<2, 9>>, <<1, 9>> >>

\* the per-step tables of the recording mode
Tables == <<files["cost_matrix.csv"], files["cap_growth_matrix.csv"]>>

\* C18: until the search has returned, save_results is false and no table is
\* written; a cost evaluation issued by the optimizer writes no file and
\* prints nothing; the tables are written only by the re-evaluation of the
\* decoded best vector, which follows the return of the search and is no
\* evaluation of the optimizer.
SearchDoesNotRecord ==
    /\ [](main_pc \in {"start", "optimizing"} =>
            ~save_results /\ Tables = << <<>>, <<>> >>)
    /\ [][evals' # evals => files' = files /\ stdout' = stdout]_vars
    /\ [][Tables' # Tables =>
            /\ main_pc = "found" /\ main_pc' = "recorded"
            /\ save_results' /\ evals' = evals]_vars

\* The search has evaluated its candidates without a table, and the recording
\* run that followed has written both.
SearchDoesNotRecordWitness ==
    /\ main_pc = "recorded"
    /\ evals = MaxEvals
    /\ save_results
    /\ Len(files["cost_matrix.csv"]) = 1 + Len(use_cases)
    /\ Len(files["cap_growth_matrix.csv"]) = 1 + Len(use_cases)
    /\ Len(use_cases) = MaxSearchMissions

\* the search has returned a vector of a roadmap with missions
SearchReturned == Len(optimal_permutation) > 0

\* C19: when the optimizer has returned without convergence, its budget
\* spent, main is in no error state: it has decoded the best vector, whose
\* cost is the reported minimum, and once main has finished the tables and
\* the optimized sheets of that order are written.
NonConvergenceIsNoError ==
    (SearchReturned /\ ~success) =>
        /\ main_pc \in {"found", "recorded", "done"}
        /\ evals = MaxEvals
        /\ optimal_permutation = argsort(result_x)
        /\ result_fun = cost_function(optimal_permutation, use_cases,
                                      use_case_data, active_model).cost
        /\ main_pc = "done" =>
              /\ Len(files["cost_matrix.csv"]) = 1 + Len(use_cases)
              /\ files["optimized_readiness.csv"] =
                    SheetRows(capabilities,
                              UseCaseOrder(optimal_permutation, use_cases),
                              use_case_data, 1)
              /\ files["optimized_dependency.csv"] =
                    SheetRows(capabilities,
                              UseCaseOrder(optimal_permutation, use_cases),
                              use_case_data, 2)

\* main has finished with its result although the optimizer spent its budget
\* without convergence.
NonConvergenceIsNoErrorWitness ==
    /\ main_pc = "done"
    /\ ~success
    /\ evals = MaxEvals
    /\ SearchReturned
    /\ files["optimized_readiness.csv"] # <<>>

\* C20: at every step after the first, the penalty entry of a capability is
\* nonzero whenever its penalty or its upgrade cost at the previous step was
\* nonzero.
PenaltyFollowsUpgrade ==
    FullMatrices =>
        \A k \in Steps \ {1} : \A c \in Caps :
            (penalty_cost_matrix[k - 1][c] # 0 \/ upgrade_cost_matrix[k - 1][c] # 0)
                => penalty_cost_matrix[k][c] # 0

\* the upgrade cost of step k and capability c
UpgradeAt(k, c) == upgrade_cost_matrix[k][c]

CombineNeverPropagates ==
    /\ combine_pc # "propagated"
    /\ (combine_pc = "returned" /\ exc # "none") =>
          DOMAIN roadmap_data.use_cases = {}

\* The export of the simplified sheets failed after loading, cleaning and
\* aligning sheets with a use case in common, and the function has returned.
CombineNeverPropagatesWitness ==
    /\ combine_pc = "returned"
    /\ exc = "OSError"
    /\ Len(df_dependency.columns) > 0
    /\ \E u \in Range(df_dependency.columns) : \E c \in Range(df_dependency.index) :
          ~IsNaN(df_dependency.cells[c][u])

\* the missions in the order of the sheet
ListedOrder == [k \in 1..Len(use_cases) |-> k - 1]

\* what cost_function returns for the order p on the loaded matrix
CostOf(p) == cost_function(p, use_cases, use_case_data, active_model).cost

ForcedBy(k, c) ==
    \E j \in 1..k : Dependency(j, c) >= DependencyThreshold(active_model)

\* the largest of 0, the baselines of capability c in the first k missions
\* and, if one of them needs it, the operational readiness
ReadinessAfter(k, c) ==
    max({0} \cup {Baseline(j, c) : j \in 1..k}
            \cup (IF ForcedBy(k, c) THEN {OperationalReadiness} ELSE {}))

\* C24: after step k the accumulated readiness of a capability is the maximum
\* of 0, of its baseline readiness in each of the first k missions, and of 9
\* if one of them has a dependency at or above the threshold; so the last row
\* is the one the listed order ends with.
AccumulatedReadiness ==
    pc = "returned" =>
        /\ FullMatrices
        /\ \A k \in Steps : \A c \in Caps :
              readiness_progression_matrix[k][c] = ReadinessAfter(k, c)
        /\ LET listed == cost_function(ListedOrder, use_cases, use_case_data,
                                       active_model).rpm
           IN  readiness_progression_matrix[Len(p_vector)] = listed[Len(listed)]

\* A capability already above the operational readiness met a mission that
\* needs it, in an order other than the listed one.
AccumulatedReadinessWitness ==
    /\ pc = "returned"
    /\ p_vector # ListedOrder
    /\ \E k \in Steps \ {1} : \E c \in Caps :
          /\ readiness_progression_matrix[k - 1][c] > OperationalReadiness
          /\ Dependency(k, c) >= DependencyThreshold(active_model)
          /\ Baseline(k, c) < OperationalReadiness

\* the upgrade costs of capability c summed over the steps 1..k
RECURSIVE UpgradesUpTo(_, _)
UpgradesUpTo(k, c) ==
    IF k = 0 THEN 0 ELSE upgrade_cost_matrix[k][c] + UpgradesUpTo(k - 1, c)

\* C25: at every step k and for every capability, the upgrade costs of the
\* steps 1..k add up to the accumulated readiness after step k, so that a
\* capability at or above 9 pays no forced upgrade any more.
UpgradesSumToReadiness ==
    pc = "returned" =>
        /\ FullMatrices
        /\ \A k \in Steps : \A c \in Caps :
              /\ UpgradesUpTo(k, c) = readiness_progression_matrix[k][c]
              /\ (Previous(readiness_progression_matrix, k, c) >= OperationalReadiness
                   /\ Baseline(k, c) <= Previous(readiness_progression_matrix, k, c))
                     => upgrade_cost_matrix[k][c] = 0

\* A capability forced to 9 at one step met a second mission that needs it
\* and paid nothing, then grew further at a third.
UpgradesSumToReadinessWitness ==
    /\ pc = "returned"
    /\ Len(p_vector) = 3
    /\ \E c \in Caps :
          /\ upgrade_cost_matrix[1][c] = OperationalReadiness
          /\ Dependency(2, c) >= DependencyThreshold(active_model)
          /\ upgrade_cost_matrix[2][c] = 0
          /\ upgrade_cost_matrix[3][c] > 0

\* C26: the recording run of the decoded best vector returns the cost the
\* evaluator returned for that vector in search mode (the reported minimum):
\* save_results changes the prints and the files, not the cost.
RecordingCostEqualsSearchCost ==
    (main_pc \in {"recorded", "done"} /\ pc = "returned") =>
        /\ save_results
        /\ p_vector = optimal_permutation
        /\ cost = result_fun

\* The recording run has returned a positive cost for a best vector that is
\* not the candidate the search evaluated last.
RecordingCostEqualsSearchCostWitness ==
    /\ main_pc = "recorded"
    /\ pc = "returned"
    /\ cost > 0
    /\ float_vector # result_x
    /\ argsort(float_vector) # optimal_permutation
    /\ stdout # <<>>

\* the thresholds of the three models, in tenths
StatedThreshold(model) ==
    CASE model = 1 -> 9 [] model = 2 -> 5 [] model = 3 -> 2

\* what cost_function computes for the evaluated order under a model
Under(model) == cost_function(p_vector, use_cases, use_case_data, model)

\* every entry of the matrix a is at most the entry of b
Below(a, b) ==
    \A k \in 1..Len(a) : \A c \in 1..Len(a[k]) : a[k][c] <= b[k][c]

\* C27: under model 1, 2 and 3 the floor of 9 is forced exactly when the
\* dependency is at or above 0.9, 0.5 and 0.2, and for the same matrix and
\* order the total cost and every accumulated readiness under model 1 are at
\* most those under model 2, which are at most those under model 3.
ThresholdsAndModelOrder ==
    (pc = "returned" /\ active_model \in {1, 2, 3}) =>
        /\ FullMatrices
        /\ \A k \in Steps : \A c \in Caps :
              readiness_progression_matrix[k][c] =
                  Largest(Previous(readiness_progression_matrix, k, c),
                          Baseline(k, c),
                          IF Dependency(k, c) >= StatedThreshold(active_model)
                          THEN 9 ELSE 0)
        /\ Under(1).cost <= Under(2).cost
        /\ Under(2).cost <= Under(3).cost
        /\ Below(Under(1).rpm, Under(2).rpm)
        /\ Below(Under(2).rpm, Under(3).rpm)

\* Model 2 was evaluated on a matrix that costs more under each next model.
ThresholdsAndModelOrderWitness ==
    /\ pc = "returned"
    /\ active_model = 2
    /\ Under(1).cost < cost
    /\ cost < Under(3).cost

ReadinessBound ==
    max({OperationalReadiness} \cup
        {use_case_data[u][c][1] : u \in DOMAIN use_case_data, c \in Caps})

\* C29: every accumulated readiness value is at least 0 and at most the
\* larger of 9 and the largest baseline readiness of the matrix, hence within
\* 0..13 for baselines within 0..13, and no upgrade cost exceeds that bound.
ReadinessBounded ==
    pc = "returned" =>
        /\ FullMatrices
        /\ ReadinessBound <= TopReadiness
        /\ \A k \in Steps : \A c \in Caps :
              /\ readiness_progression_matrix[k][c] >= 0
              /\ readiness_progression_matrix[k][c] <= ReadinessBound
              /\ upgrade_cost_matrix[k][c] <= ReadinessBound

\* A capability was forced to 9 and later grew to the largest baseline of the
\* matrix, above 9.
ReadinessBoundedWitness ==
    /\ pc = "returned"
    /\ ReadinessBound > OperationalReadiness
    /\ \E k \in Steps \ {1} : \E c \in Caps :
          /\ readiness_progression_matrix[k - 1][c] = OperationalReadiness
          /\ readiness_progression_matrix[k][c] = ReadinessBound
    /\ cost = ReadinessBound

\* the report one of the two handlers of main prints last
ErrorReported ==
    /\ stdout # <<>>
    /\ stdout[Len(stdout)] = (IF exc = "FileNotFoundError"
                              THEN "Details" ELSE "An error occurred")

\* C30: main never lets an exception out: a failure of the load, of a cost
\* evaluation of the search, of the recording run or of the saving is caught
\* and printed, the handler is the only step that follows the raise, and
\* after it main has ended: no later step of the pipeline runs, and the
\* closing messages are not printed.
MainNeverPropagates ==
    /\ [](/\ main_pc # "propagated"
          /\ main_pc = "failed" =>
                /\ exc # "none"
                /\ ErrorReported
                /\ files["optimized_dependency.csv"] = <<>>)
    /\ [][pc = "raised" => (main_pc' = "failed" /\ files' = files)]_vars
    /\ [][main_pc # "failed"]_vars

\* main has ended in its handler after the saving failed at its second file:
\* the load, the search and the recording run had succeeded.
MainNeverPropagatesWitness ==
    /\ main_pc = "failed"
    /\ exc = "OSError"
    /\ evals = MaxEvals
    /\ files["cap_growth_matrix.csv"] # <<>>
    /\ files["optimized_readiness.csv"] # <<>>

====
